---- MODULE Spec2Model ----
(***************************************************************************)
(* Habit tracker: the JSON-file server (src/server/index.js), the SQLite    *)
(* server (src/unnamed/part_001) and the browser client                    *)
(* (src/unnamed/part_000).  Both servers listen on port 3000, so a         *)
(* deployment runs exactly one of them; env.backend says which.            *)
(*                                                                         *)
(* A request handler is an async function: it runs without interruption    *)
(* from one await to the next, and other handlers run at the awaits.  Each *)
(* action below is one such stretch of a handler.                          *)
(*                                                                         *)
(* Dates: `new Date().toISOString().split('T')[0]` maps the clock to its   *)
(* UTC day; a date string is modelled as the one-element tuple <<day>> and *)
(* JSON/SQL null as the empty tuple.  The local time zone of the server    *)
(* is taken to have a fixed UTC offset, so `setDate(getDate() - 1)` moves  *)
(* the clock back by exactly one day.                                      *)
(*                                                                         *)
(* Strings (habit names) are sequences of the characters " " and "a".     *)
(***************************************************************************)
EXTENDS Integers, Sequences, FiniteSets, TLC

VARIABLES
    env,      \* the deployment: backend, connections served at once, clock horizon, request inputs
              \*          (and, with a browser, the calls and failures still to come)
    now,      \* the system clock (Date.now(), new Date()), in ticks
    file,     \* habits.json: whether it exists, and the array it holds
    db,       \* the rows of table habits, in rowid order
    seq,      \* sqlite_sequence for table habits: the largest rowid ever assigned
    reqs,     \* the requests in flight, one per connection slot
    trail,    \* history: per habit id, the record before and after its latest toggles
    issued,   \* history: how many times each id has been assigned by a create
    deleted,  \* history: ids whose DELETE has been answered 204 (and not assigned by a create
              \*          that was in flight then, or came later)
    expect,   \* history: per id, the record of the last answered create/toggle/delete
    clash,    \* history: two requests for the same id have overlapped, or a request has
              \*          overlapped readData's creation of the missing file
    ui        \* the browser: App's state (habits, loading), its calls that await a fetch,
              \*          and (history) what the last step of the client did

vars == <<env, now, file, db, seq, reqs, trail, issued, deleted, expect, clash, ui>>

\* the clock, the server and its history
remote == <<now, file, db, seq, reqs, trail, issued, deleted, expect, clash>>

----------------------------------------------------------------------------
(* Bounds of the model *)

TicksPerDay == 2        \* clock ticks per calendar day (86 400 000 ms in the program)
MaxHabits == 2          \* creates are accepted while the store holds fewer habits (requests overlap)
MaxHabitsSerial == 1    \* the same, when requests are served one at a time
MaxInFlight == 2        \* connection slots
MaxSeq == 3             \* SQL creates are accepted while sqlite_sequence is below this
HorizonSerial == 7      \* last clock value when requests are served one at a time
HorizonConc == 3        \* last clock value when requests overlap
HorizonEngine == 5      \* last clock value of the engine specification
HorizonCreate == 3      \* last clock value of the create specification
HorizonRemove == 3      \* last clock value of the delete specification
MaxSeedStreak == 3      \* largest streak of a seeded habit
TrailLen == 4           \* entries kept per habit in trail
MaxCalls == 6           \* calls the user makes in a run, one at a time
MaxCallsOverlapping == 4    \* the same, when the calls of the browser overlap
MaxFaults == 2          \* lost fetches and storage errors in a run, calls one at a time
MaxFaultsOverlapping == 1   \* the same, when the calls of the browser overlap

(* Program constants *)
NameMin == 1            \* z.string().min(1, ...)
NameMax == 50           \* z.string().max(50, ...)
NoSuchId == -1          \* a request parameter :id that no create ever assigns

Epoch == TicksPerDay    \* the clock value at start (day 1)

----------------------------------------------------------------------------
(* Strings *)

Rep(c, n) == [i \in 1..n |-> c]
Str(lead, core, trail_) == Rep(" ", lead) \o Rep("a", core) \o Rep(" ", trail_)

RECURSIVE TrimStart(_)
TrimStart(s) == IF s # <<>> /\ Head(s) = " " THEN TrimStart(Tail(s)) ELSE s

RECURSIVE TrimEnd(_)
TrimEnd(s) == IF s # <<>> /\ s[Len(s)] = " " THEN TrimEnd(SubSeq(s, 1, Len(s) - 1)) ELSE s

Trim(s) == TrimEnd(TrimStart(s))

\* habitSchema.safeParse on a body {name: <string>}: zod runs the checks of
\* z.string().min(1).max(50).trim() in the order written, so min and max see
\* the string as sent and trim then rewrites it.
SafeParse(name) ==
    IF Len(name) < NameMin \/ Len(name) > NameMax
    THEN [success |-> FALSE, data |-> <<>>]
    ELSE [success |-> TRUE, data |-> Trim(name)]

----------------------------------------------------------------------------
(* Dates *)

Null == <<>>

\* new Date().toISOString().split('T')[0] at clock value t
Today(t) == <<t \div TicksPerDay>>

\* as YesterdayStr, without the setDate call
YesterdayStrNoSetDate(t) == <<t \div TicksPerDay>>

\* yesterday = new Date(); yesterday.setDate(yesterday.getDate() - 1);
\* yesterday.toISOString().split('T')[0]
YesterdayStr(t) == <<(t - TicksPerDay) \div TicksPerDay>>

----------------------------------------------------------------------------
(* The JSON-file server's toggle computation (index.js 117-147) *)

\* as ToggleJson, with an undo that leaves the streak as it is
ToggleJsonUndoKeepsStreak(habit, t) ==
    LET today == Today(t)
        newCompletedToday == ~habit.completed_today
        newStreak ==
            IF newCompletedToday
            THEN IF habit.last_completed_date = YesterdayStr(t) THEN habit.streak + 1
                 ELSE IF habit.last_completed_date # today THEN 1
                 ELSE habit.streak
            ELSE habit.streak
        newLastDate ==
            IF newCompletedToday THEN today
            ELSE IF habit.last_completed_date = today THEN Null
            ELSE habit.last_completed_date
    IN  [habit EXCEPT !.completed_today = newCompletedToday,
                      !.streak = newStreak,
                      !.last_completed_date = newLastDate]

\* as ToggleJson, with an undo that leaves last_completed_date as it is
ToggleJsonUndoKeepsDate(habit, t) ==
    LET today == Today(t)
        newCompletedToday == ~habit.completed_today
        newStreak ==
            IF newCompletedToday
            THEN IF habit.last_completed_date = YesterdayStr(t) THEN habit.streak + 1
                 ELSE IF habit.last_completed_date # today THEN 1
                 ELSE habit.streak
            ELSE IF habit.last_completed_date = today /\ habit.streak > 0
                 THEN habit.streak - 1
                 ELSE habit.streak
    IN  [habit EXCEPT !.completed_today = newCompletedToday,
                      !.streak = newStreak,
                      !.last_completed_date = IF newCompletedToday THEN today ELSE @]

\* as ToggleJson, without the `last_completed_date !== today` guard
ToggleJsonNoGuard(habit, t) ==
    LET today == Today(t)
        newCompletedToday == ~habit.completed_today
        newStreak ==
            IF newCompletedToday
            THEN IF habit.last_completed_date = YesterdayStr(t) THEN habit.streak + 1 ELSE 1
            ELSE IF habit.last_completed_date = today /\ habit.streak > 0
                 THEN habit.streak - 1
                 ELSE habit.streak
        newLastDate ==
            IF newCompletedToday THEN today
            ELSE IF habit.last_completed_date = today THEN Null
            ELSE habit.last_completed_date
    IN  [habit EXCEPT !.completed_today = newCompletedToday,
                      !.streak = newStreak,
                      !.last_completed_date = newLastDate]

ToggleJson(habit, t) ==
    LET today == Today(t)
        newCompletedToday == ~habit.completed_today
        yesterdayStr == YesterdayStr(t)
        newStreak ==
            IF newCompletedToday
            THEN IF habit.last_completed_date = yesterdayStr THEN habit.streak + 1
                 ELSE IF habit.last_completed_date # today THEN 1
                 ELSE habit.streak
            ELSE IF habit.last_completed_date = today /\ habit.streak > 0
                 THEN habit.streak - 1
                 ELSE habit.streak
        newLastDate ==
            IF newCompletedToday THEN today
            ELSE IF habit.last_completed_date = today THEN Null
            ELSE habit.last_completed_date
    IN  [habit EXCEPT !.completed_today = newCompletedToday,
                      !.streak = newStreak,
                      !.last_completed_date = newLastDate]

(* The SQLite server's toggle computation (part_001 119-151).  Column
   completed_today is BOOLEAN: it holds 0 or 1, and a bound true/false is
   stored as 1/0. *)

BoolToInt(b) == IF b THEN 1 ELSE 0

\* as ToggleSql, with an undo that leaves last_completed_date as it is
ToggleSqlUndoKeepsDate(habit, t) ==
    LET today == Today(t)
        newCompletedToday == (habit.completed_today = 0)
        newStreak ==
            IF newCompletedToday
            THEN IF habit.last_completed_date = YesterdayStr(t) THEN habit.streak + 1
                 ELSE IF habit.last_completed_date # today THEN 1
                 ELSE habit.streak
            ELSE IF habit.last_completed_date = today /\ habit.streak > 0
                 THEN habit.streak - 1
                 ELSE habit.streak
    IN  [habit EXCEPT !.completed_today = BoolToInt(newCompletedToday),
                      !.streak = newStreak,
                      !.last_completed_date = IF newCompletedToday THEN today ELSE @]

ToggleSql(habit, t) ==
    LET today == Today(t)
        newCompletedToday == (habit.completed_today = 0)
        yesterdayStr == YesterdayStr(t)
        newStreak ==
            IF newCompletedToday
            THEN IF habit.last_completed_date # today
                 THEN IF habit.last_completed_date = yesterdayStr THEN habit.streak + 1
                      ELSE IF habit.last_completed_date # today THEN 1
                      ELSE habit.streak
                 ELSE habit.streak
            ELSE IF habit.last_completed_date = today /\ habit.streak > 0
                 THEN habit.streak - 1
                 ELSE habit.streak
        newLastDate ==
            IF newCompletedToday THEN today
            ELSE IF habit.last_completed_date = today THEN Null
            ELSE habit.last_completed_date
    IN  [habit EXCEPT !.completed_today = BoolToInt(newCompletedToday),
                      !.streak = newStreak,
                      !.last_completed_date = newLastDate]

----------------------------------------------------------------------------
(* Arrays of habits *)

NewHabitJson(id, name) ==
    [id |-> id, name |-> name, streak |-> 0,
     completed_today |-> FALSE, last_completed_date |-> Null]

\* INSERT INTO habits (name, streak, completed_today, last_completed_date)
\* VALUES (?, 0, 0, NULL)
NewHabitSql(id, name) ==
    [id |-> id, name |-> name, streak |-> 0,
     completed_today |-> 0, last_completed_date |-> Null]

\* habits.findIndex(h => h.id === id): the first index, 0 when there is none
FindIndex(habits, id) ==
    IF \E i \in 1..Len(habits) : habits[i].id = id
    THEN CHOOSE i \in 1..Len(habits) :
            /\ habits[i].id = id
            /\ \A j \in 1..(i - 1) : habits[j].id # id
    ELSE 0

\* as FilterOut, with the test the other way round (h.id === id, WHERE id <> ?)
FilterKeep(habits, id) == SelectSeq(habits, LAMBDA h : h.id = id)

\* habits.filter(h => h.id !== id); DELETE FROM habits WHERE id = ?
RECURSIVE FilterOut(_, _)
FilterOut(habits, id) ==
    IF habits = <<>> THEN <<>>
    ELSE IF Head(habits).id = id THEN FilterOut(Tail(habits), id)
    ELSE <<Head(habits)>> \o FilterOut(Tail(habits), id)

\* SELECT * FROM habits WHERE id = ?  (db.get: the row, or undefined)
SqlGetRow(rows, id) ==
    LET i == FindIndex(rows, id) IN IF i = 0 THEN <<>> ELSE <<rows[i]>>

\* as SqlUpdateRow, with the flag flipped in the statement itself
\* (SET completed_today = NOT completed_today)
SqlUpdateRowFlipsInPlace(rows, id, v) ==
    [i \in 1..Len(rows) |->
        IF rows[i].id = id
        THEN [rows[i] EXCEPT !.completed_today = 1 - @,
                             !.streak = v.streak,
                             !.last_completed_date = v.last_completed_date]
        ELSE rows[i]]

\* UPDATE habits SET completed_today = ?, streak = ?, last_completed_date = ? WHERE id = ?
SqlUpdateRow(rows, id, v) ==
    [i \in 1..Len(rows) |->
        IF rows[i].id = id
        THEN [rows[i] EXCEPT !.completed_today = v.completed_today,
                             !.streak = v.streak,
                             !.last_completed_date = v.last_completed_date]
        ELSE rows[i]]

IdsOf(habits) == {habits[i].id : i \in 1..Len(habits)}

\* the habits the running backend persists
Store == IF env.backend = "json" THEN file.habits ELSE db

----------------------------------------------------------------------------
(* Requests in flight *)

Slots == 1..MaxInFlight

Idle ==
    [op |-> "idle", pc |-> "idle", id |-> NoSuchId, sent |-> <<>>, name |-> <<>>, t |-> 0,
     pre |-> <<>>, out |-> <<>>, status |-> 0, body |-> <<>>, after |-> {}]

\* a slot is free, and the deployment serves that many connections at once
Free(s) ==
    /\ s <= env.conns
    /\ reqs[s].op = "idle"
    /\ \A u \in 1..(s - 1) : reqs[u].op # "idle"

Quiescent == \A s \in Slots : reqs[s].op = "idle"

\* ids a client sends: those it has seen in the store (stored now, or deleted
\* since), and one it has not
TargetIds == IdsOf(Store) \cup deleted \cup {NoSuchId}

\* another request is in flight while the missing file is being created
OverlapsCreation(s, r) ==
    /\ \E u \in Slots \ {s} : reqs[u].op # "idle"
    /\ r.pc = "mkfile" \/ \E u \in Slots \ {s} : reqs[u].pc = "mkfile"

\* another request for the same id is in flight
Overlaps(s, id) ==
    \E u \in Slots \ {s} :
        /\ reqs[u].op \in {"create", "toggle", "delete"}
        /\ ~(reqs[u].op = "create" /\ reqs[u].pc = "mkfile")
        /\ reqs[u].id = id

----------------------------------------------------------------------------
(* History variables.  env.record names the ones a specification keeps. *)

Truthy(x) == IF env.backend = "json" THEN x ELSE x = 1

Entry(h, day) ==
    [streak |-> h.streak, completed |-> Truthy(h.completed_today),
     last |-> h.last_completed_date, day |-> day]

LastN(q, n) == IF Len(q) <= n THEN q ELSE SubSeq(q, Len(q) - n + 1, Len(q))

TrailCreate(h, t) ==
    IF "trail" \in env.record /\ h.id \notin DOMAIN trail
    THEN trail @@ (h.id :> <<Entry(h, Today(t))>>)
    ELSE trail

TrailToggle(id, h, t) ==
    IF "trail" \in env.record /\ id \in DOMAIN trail
    THEN [trail EXCEPT ![id] = LastN(Append(@, Entry(h, Today(t))), TrailLen)]
    ELSE trail

TrailDelete(id) == [i \in DOMAIN trail \ {id} |-> trail[i]]

IssuedCreate(id) ==
    IF "issued" \notin env.record THEN issued
    ELSE IF id \in DOMAIN issued THEN [issued EXCEPT ![id] = 2]
    ELSE issued @@ (id :> 1)

ExpectAnswer(r) ==
    IF "expect" \in env.record
       /\ \/ r.op = "create" /\ r.status = 201
          \/ r.op = "toggle" /\ r.status = 200
          \/ r.op = "delete" /\ r.status = 204
    THEN [i \in DOMAIN expect \cup {r.id} |-> IF i = r.id THEN r.body ELSE expect[i]]
    ELSE expect

DeletedAnswer(r) ==
    IF /\ "deleted" \in env.record
       /\ r.op = "delete"
       /\ r.status = 204
       /\ ~\E u \in Slots : reqs[u].op = "create" /\ reqs[u].pc # "mkfile" /\ reqs[u].id = r.id
    THEN deleted \cup {r.id}
    ELSE deleted

----------------------------------------------------------------------------
(* JSON-file server: src/server/index.js *)

\* The handler from the point where `await readData()` has returned `data`,
\* up to its next await (writeData) or its response.
JsonAfterRead(r, data, t) ==
    CASE r.op = "list" ->
            [r EXCEPT !.pc = "respond", !.status = 200, !.body = data]
      [] r.op = "create" ->
            LET newHabit == NewHabitJson(t, r.name)
            IN  [r EXCEPT !.pc = "write", !.id = t, !.t = t,
                          !.out = Append(data, newHabit),
                          !.status = 201, !.body = <<newHabit>>]
      [] r.op = "toggle" ->
            LET habitIndex == FindIndex(data, r.id)
            IN  IF habitIndex = 0
                THEN [r EXCEPT !.pc = "respond", !.status = 404]
                ELSE LET habit == data[habitIndex]
                         toggled == ToggleJson(habit, t)
                     IN  [r EXCEPT !.pc = "write", !.t = t, !.pre = <<habit>>,
                                   !.out = [data EXCEPT ![habitIndex] = toggled],
                                   !.status = 200, !.body = <<toggled>>]
      [] r.op = "delete" ->
            [r EXCEPT !.pc = "write", !.out = FilterOut(data, r.id), !.status = 204]

\* A request arrives and its handler runs to its first await; readData's
\* readFile either returns the array or fails with ENOENT.
JsonArrive(s, r) ==
    /\ env.backend = "json"
    /\ Free(s)
    /\ LET r2 == IF file.exists THEN JsonAfterRead(r, file.habits, now)
                 ELSE [r EXCEPT !.pc = "mkfile"]
       IN  /\ reqs' = [reqs EXCEPT ![s] = r2]
           /\ clash' = (\/ clash
                        \/ r2.op # "list" /\ r2.pc # "mkfile" /\ Overlaps(s, r2.id)
                        \/ OverlapsCreation(s, r2))
           /\ issued' = IF r2.op = "create" /\ r2.pc = "write" THEN IssuedCreate(r2.id) ELSE issued
           /\ deleted' = IF r2.op = "create" /\ r2.pc = "write" THEN deleted \ {r2.id} ELSE deleted
    /\ UNCHANGED <<env, ui, now, file, db, seq, trail, expect>>

\* app.get('/api/habits')
JsonList(s) ==
    JsonArrive(s, [Idle EXCEPT !.op = "list", !.after = deleted])

\* app.post('/api/habits'): a body that fails validation is answered 400
\* before readData is called
JsonCreate(s, name) ==
    LET validation == SafeParse(name)
    IN  IF validation.success
        THEN /\ file.exists => Len(file.habits) < env.cap
             /\ JsonArrive(s, [Idle EXCEPT !.op = "create", !.sent = name,
                                               !.name = validation.data])
        ELSE /\ env.backend = "json"
             /\ Free(s)
             /\ reqs' = [reqs EXCEPT ![s] = [Idle EXCEPT !.op = "create", !.pc = "respond",
                                                         !.sent = name, !.status = 400]]
             /\ UNCHANGED <<env, ui, now, file, db, seq, trail, issued, deleted, expect, clash>>

\* app.patch('/api/habits/:id/toggle')
JsonToggle(s, id) ==
    JsonArrive(s, [Idle EXCEPT !.op = "toggle", !.id = id])

\* app.delete('/api/habits/:id')
JsonDelete(s, id) ==
    JsonArrive(s, [Idle EXCEPT !.op = "delete", !.id = id])

\* readData after ENOENT: `await writeData([])` lands, readData returns [],
\* and the handler runs on with the empty array.
JsonReadDataCreate(s) ==
    /\ reqs[s].pc = "mkfile"
    /\ file' = [exists |-> TRUE, habits |-> <<>>]
    /\ LET r2 == JsonAfterRead(reqs[s], <<>>, now)
       IN  /\ reqs' = [reqs EXCEPT ![s] = r2]
           /\ clash' = (clash \/ (r2.op # "list" /\ Overlaps(s, r2.id)))
           /\ issued' = IF r2.op = "create" THEN IssuedCreate(r2.id) ELSE issued
           /\ deleted' = IF r2.op = "create" THEN deleted \ {r2.id} ELSE deleted
    /\ UNCHANGED <<env, ui, now, db, seq, trail, expect>>

\* `await writeData(habits)` lands: the file now holds the handler's array
JsonWriteData(s) ==
    /\ reqs[s].pc = "write"
    /\ file' = [exists |-> TRUE, habits |-> reqs[s].out]
    /\ reqs' = [reqs EXCEPT ![s].pc = "respond"]
    /\ trail' = CASE reqs[s].op = "create" -> TrailCreate(reqs[s].body[1], reqs[s].t)
                  [] reqs[s].op = "toggle" -> TrailToggle(reqs[s].id, reqs[s].body[1], reqs[s].t)
                  [] OTHER -> TrailDelete(reqs[s].id)
    /\ UNCHANGED <<env, ui, now, db, seq, issued, deleted, expect, clash>>

----------------------------------------------------------------------------
(* SQLite server: src/unnamed/part_001 *)

SqlArrive(s, r) ==
    /\ env.backend = "sql"
    /\ Free(s)
    /\ reqs' = [reqs EXCEPT ![s] = r]
    /\ clash' = (clash \/ (r.op # "list" /\ Overlaps(s, r.id)))
    /\ UNCHANGED <<env, ui, now, file, expect>>

\* app.get('/api/habits'): db.all('SELECT * FROM habits')
SqlList(s) ==
    /\ SqlArrive(s, [Idle EXCEPT !.op = "list", !.pc = "respond", !.status = 200,
                                 !.body = db, !.after = deleted])
    /\ UNCHANGED <<db, seq, trail, issued, deleted>>

\* app.post('/api/habits'): validation, then the INSERT; AUTOINCREMENT gives
\* the new row an id one above the largest id the table has ever held
SqlCreate(s, name) ==
    LET validation == SafeParse(name)
        lastID == seq + 1
        row == NewHabitSql(lastID, validation.data)
    IN  IF validation.success
        THEN /\ Len(db) < env.cap
             /\ seq < MaxSeq
             /\ SqlArrive(s, [Idle EXCEPT !.op = "create", !.pc = "select", !.id = lastID,
                                          !.sent = name, !.name = validation.data,
                                          !.t = now, !.status = 201])
             /\ db' = Append(db, row)
             /\ seq' = lastID
             /\ trail' = TrailCreate(row, now)
             /\ issued' = IssuedCreate(lastID)
             /\ deleted' = deleted \ {lastID}
        ELSE /\ SqlArrive(s, [Idle EXCEPT !.op = "create", !.pc = "respond",
                                          !.sent = name, !.status = 400])
             /\ UNCHANGED <<db, seq, trail, issued, deleted>>

\* app.patch('/api/habits/:id/toggle'): db.get, 404 when there is no row,
\* else the new values are computed and the UPDATE is issued
SqlToggle(s, id) ==
    LET got == SqlGetRow(db, id)
    IN  /\ IF got = <<>>
           THEN SqlArrive(s, [Idle EXCEPT !.op = "toggle", !.pc = "respond", !.id = id,
                                          !.status = 404])
           ELSE SqlArrive(s, [Idle EXCEPT !.op = "toggle", !.pc = "update", !.id = id,
                                          !.t = now, !.pre = got,
                                          !.out = <<ToggleSql(got[1], now)>>,
                                          !.status = 200])
        /\ UNCHANGED <<db, seq, trail, issued, deleted>>

\* the UPDATE of a toggle lands
SqlUpdate(s) ==
    /\ reqs[s].pc = "update"
    /\ db' = SqlUpdateRow(db, reqs[s].id, reqs[s].out[1])
    /\ reqs' = [reqs EXCEPT ![s].pc = "select"]
    /\ trail' = IF SqlGetRow(db, reqs[s].id) = <<>> THEN trail
                ELSE TrailToggle(reqs[s].id, reqs[s].out[1], reqs[s].t)
    /\ UNCHANGED <<env, ui, now, file, seq, issued, deleted, expect, clash>>

\* db.get('SELECT * FROM habits WHERE id = ?') after the INSERT or the UPDATE:
\* its row (or undefined) is the response body
SqlSelect(s) ==
    /\ reqs[s].pc = "select"
    /\ reqs' = [reqs EXCEPT ![s].pc = "respond", ![s].body = SqlGetRow(db, reqs[s].id)]
    /\ UNCHANGED <<env, ui, now, file, db, seq, trail, issued, deleted, expect, clash>>

\* app.delete('/api/habits/:id'): the DELETE
SqlDelete(s, id) ==
    /\ SqlArrive(s, [Idle EXCEPT !.op = "delete", !.pc = "respond", !.id = id, !.status = 204])
    /\ db' = FilterOut(db, id)
    /\ trail' = TrailDelete(id)
    /\ UNCHANGED <<seq, issued, deleted>>

----------------------------------------------------------------------------
(* The browser client, src/unnamed/part_000 (App): its state.  A call of
   fetchHabits, addHabit, toggleHabit or deleteHabit awaits one fetch; the
   fetch of call c uses connection c, and is served in slot c. *)

IdleCall ==
    [fn |-> "idle", stage |-> "idle", id |-> NoSuchId, name |-> <<>>, habits |-> <<>>,
     status |-> 0, body |-> <<>>, why |-> "none", alone |-> FALSE]

\* history: no step of the client yet
NoLast == [what |-> "none", id |-> NoSuchId, status |-> 0, alone |-> FALSE]

\* no browser is attached
NoBrowser ==
    [habits |-> <<>>, loading |-> FALSE, calls |-> [c \in Slots |-> IdleCall], last |-> NoLast]

\* fetchHabits() up to `await fetch(API_URL)`
FetchCall(why, alone) ==
    [IdleCall EXCEPT !.fn = "fetch", !.stage = "sent", !.why = why, !.alone = alone]

\* App has mounted: useState([]), useState(true), and the effect has called
\* fetchHabits()
Mounted ==
    [habits |-> <<>>, loading |-> TRUE,
     calls |-> [c \in Slots |-> IF c = 1 THEN FetchCall("mount", TRUE) ELSE IdleCall],
     last |-> NoLast]

Browser(e) == IF "browser" \in DOMAIN e THEN Mounted ELSE NoBrowser

\* the response of slot s reaches `await fetch(...)` of the call that waits
\* on that connection
Answered(s) ==
    IF ui.calls[s].stage = "sent"
    THEN [ui EXCEPT !.calls[s].stage = "answered",
                    !.calls[s].status = reqs[s].status,
                    !.calls[s].body = reqs[s].body]
    ELSE ui

----------------------------------------------------------------------------
(* Both servers *)

\* res.status(...).json(...) / .send(): the request is answered and leaves
Respond(s) ==
    /\ reqs[s].pc = "respond"
    /\ reqs' = [reqs EXCEPT ![s] = Idle]
    /\ expect' = ExpectAnswer(reqs[s])
    /\ deleted' = DeletedAnswer(reqs[s])
    /\ ui' = Answered(s)
    /\ UNCHANGED <<env, now, file, db, seq, trail, issued, clash>>

\* the clock advances
Tick ==
    /\ now < env.horizon
    /\ now' = now + 1
    /\ UNCHANGED <<env, ui, file, db, seq, reqs, trail, issued, deleted, expect, clash>>

Next ==
    \/ \E s \in Slots : JsonList(s)
    \/ \E s \in Slots, name \in env.names : JsonCreate(s, name)
    \/ \E s \in Slots, id \in TargetIds : JsonToggle(s, id)
    \/ \E s \in Slots, id \in TargetIds : JsonDelete(s, id)
    \/ \E s \in Slots : JsonReadDataCreate(s)
    \/ \E s \in Slots : JsonWriteData(s)
    \/ \E s \in Slots : SqlList(s)
    \/ \E s \in Slots, name \in env.names : SqlCreate(s, name)
    \/ \E s \in Slots, id \in TargetIds : SqlToggle(s, id)
    \/ \E s \in Slots, id \in TargetIds : SqlDelete(s, id)
    \/ \E s \in Slots : SqlUpdate(s)
    \/ \E s \in Slots : SqlSelect(s)
    \/ \E s \in Slots : Respond(s)
    \/ Tick

----------------------------------------------------------------------------
(* Specifications *)

Backends == {"json", "sql"}

\* request bodies: one plain name
PlainNames == {Str(0, 1, 0)}

\* request bodies around the limits of habitSchema
NameInputs ==
    {Str(l, c, r) : l \in {0, 1}, c \in {0, 1, NameMax - 1, NameMax, NameMax + 1}, r \in {0, 1}}

\* the state after start-up: no habits.json yet, an empty table
InitWith(e) ==
    /\ env = e
    /\ now = Epoch
    /\ file = [exists |-> FALSE, habits |-> <<>>]
    /\ db = <<>>
    /\ seq = 0
    /\ reqs = [s \in Slots |-> Idle]
    /\ trail = <<>>
    /\ issued = <<>>
    /\ deleted = {}
    /\ expect = <<>>
    /\ clash = FALSE
    /\ ui = Browser(e)

Overlapping(record) ==
    \E b \in Backends :
        InitWith([backend |-> b, conns |-> MaxInFlight, horizon |-> HorizonConc,
                  cap |-> MaxHabits, names |-> PlainNames, record |-> record])

\* requests overlap
Init == Overlapping({"issued"})

Spec == Init /\ [][Next]_vars

\* requests overlap; the answered deletes are recorded
InitDeleted == Overlapping({"deleted"})

SpecDeleted == InitDeleted /\ [][Next]_vars

\* requests overlap; the answers are recorded
InitExpect == Overlapping({"expect"})

SpecExpect == InitExpect /\ [][Next]_vars

\* requests are served one at a time
InitSerial ==
    \E b \in Backends :
        InitWith([backend |-> b, conns |-> 1, horizon |-> HorizonSerial,
                  cap |-> MaxHabitsSerial, names |-> PlainNames, record |-> {"trail"}])

SpecSerial == InitSerial /\ [][Next]_vars

\* names around the validation limits, one request at a time
InitCreate ==
    \E b \in Backends :
        InitWith([backend |-> b, conns |-> 1, horizon |-> HorizonCreate,
                  cap |-> MaxHabitsSerial, names |-> NameInputs, record |-> {}])

SpecCreate == InitCreate /\ [][Next]_vars

\* one request at a time; the answered deletes are recorded, so that a
\* deleted id is sent again
InitRemove ==
    \E b \in Backends :
        InitWith([backend |-> b, conns |-> 1, horizon |-> HorizonRemove,
                  cap |-> MaxHabitsSerial, names |-> PlainNames, record |-> {"deleted"}])

SpecRemove == InitRemove /\ [][Next]_vars

\* The toggle engine on any stored habit: the store starts either as after
\* start-up or holding one habit with any streak, any completed_today and a
\* last_completed_date that is null, today's or yesterday's (and, as the clock
\* advances, older); requests are served one at a time.
SeedId == 1

SeedHabits(b) ==
    {[id |-> SeedId, name |-> Str(0, 1, 0), streak |-> k,
      completed_today |-> IF b = "json" THEN c ELSE BoolToInt(c),
      last_completed_date |-> d] :
        k \in 0..MaxSeedStreak, c \in BOOLEAN,
        d \in {Null, Today(Epoch), YesterdayStr(Epoch)}}

InitEngine ==
    \E b \in Backends :
        LET e == [backend |-> b, conns |-> 1, horizon |-> HorizonEngine,
                  cap |-> MaxHabitsSerial, names |-> PlainNames, record |-> {"trail"}]
        IN  \/ InitWith(e)
            \/ \E h \in SeedHabits(b) :
                /\ env = e
                /\ now = Epoch
                /\ file = [exists |-> (b = "json"), habits |-> IF b = "json" THEN <<h>> ELSE <<>>]
                /\ db = IF b = "sql" THEN <<h>> ELSE <<>>
                /\ seq = IF b = "sql" THEN SeedId ELSE 0
                /\ reqs = [s \in Slots |-> Idle]
                /\ trail = (SeedId :> <<[streak |-> h.streak,
                                         completed |-> IF b = "json" THEN h.completed_today
                                                       ELSE h.completed_today = 1,
                                         last |-> h.last_completed_date,
                                         day |-> Today(Epoch)]>>)
                /\ issued = <<>>
                /\ deleted = {}
                /\ expect = <<>>
                /\ clash = FALSE
                /\ ui = NoBrowser

SpecEngine == InitEngine /\ [][Next]_vars

----------------------------------------------------------------------------
(* The browser client, src/unnamed/part_000 (App): its steps.  Each action is
   the stretch of a handler from one await to the next.  On the SQLite
   deployment completed_today arrives as 0 or 1; App reads only its truth
   value, and the boolean that toggleHabit computes is written 1/0 likewise. *)

FromBool(b) == IF env.backend = "json" THEN b ELSE BoolToInt(b)

\* toggleHabit: `updatedHabits`, the optimistic list
Optimistic(habits, id) ==
    [i \in 1..Len(habits) |->
        IF habits[i].id = id
        THEN LET wasCompleted == Truthy(habits[i].completed_today)
             IN  [habits[i] EXCEPT
                    !.completed_today = FromBool(~wasCompleted),
                    !.streak = IF ~wasCompleted THEN @ + 1
                               ELSE IF @ - 1 > 0 THEN @ - 1 ELSE 0]
        ELSE habits[i]]

\* as Reconcile, taking only the flag and the streak from the response
ReconcileFlagAndStreak(habits, id, updatedHabit) ==
    [i \in 1..Len(habits) |->
        IF habits[i].id = id
        THEN [habits[i] EXCEPT !.completed_today = updatedHabit.completed_today,
                               !.streak = updatedHabit.streak]
        ELSE habits[i]]

\* toggleHabit: prev.map(h => h.id === id ? updatedHabit : h)
Reconcile(habits, id, updatedHabit) ==
    [i \in 1..Len(habits) |-> IF habits[i].id = id THEN updatedHabit ELSE habits[i]]

\* as RollBack, leaving the list as it is
RollBackNothing(call, habits) == habits

\* toggleHabit: setHabits(oldHabits), with oldHabits = [...habits] of the
\* render the handler was called in
RollBack(call, habits) == call.habits

\* res.ok
Ok(call) == call.status \in 200..299

\* `await res.json()` gives a record (an empty body fails to parse)
Parsed(call) == Ok(call) /\ call.body # <<>>

\* the habits after the call's fetch has resolved with a response
Settled(call, habits) ==
    CASE call.fn = "fetch" -> IF Ok(call) THEN call.body ELSE habits
      [] call.fn = "add" -> IF Parsed(call) THEN Append(call.habits, call.body[1]) ELSE habits
      [] call.fn = "toggle" ->
            IF Parsed(call) THEN Reconcile(habits, call.id, call.body[1])
            ELSE RollBack(call, habits)
      [] call.fn = "delete" -> habits

\* history: what that step did
LastSettled(call) ==
    [what |-> CASE call.fn = "fetch" ->
                    IF ~Ok(call) THEN "unfetched"
                    ELSE IF call.why = "delete" THEN "refetched" ELSE "shown"
                [] call.fn = "add" -> IF Parsed(call) THEN "added" ELSE "unadded"
                [] call.fn = "toggle" -> IF Parsed(call) THEN "reconciled" ELSE "rolledback"
                [] call.fn = "delete" -> "deleted",
     id |-> call.id, status |-> call.status, alone |-> call.alone]

\* a call can start: its connection is not in use
CallFree(c) ==
    /\ c <= env.conns
    /\ ui.calls[c].fn = "idle"
    /\ reqs[c].op = "idle"

\* history: nothing else is in flight
Alone(c) == \A u \in Slots \ {c} : ui.calls[u].fn = "idle" /\ reqs[u].op = "idle"

\* the calls once call c has started
Started(c, call) ==
    [u \in Slots |->
        IF u = c THEN [call EXCEPT !.stage = "sent", !.alone = Alone(c)]
        ELSE [ui.calls[u] EXCEPT !.alone = FALSE]]

\* addHabit up to `await fetch(API_URL, {method: 'POST', ...})`
AddHabit(c, name) ==
    /\ CallFree(c)
    /\ Trim(name) # <<>>
    /\ env.calls > 0
    /\ env' = [env EXCEPT !.calls = @ - 1]
    /\ ui' = [ui EXCEPT !.calls = Started(c, [IdleCall EXCEPT !.fn = "add", !.name = name,
                                                              !.habits = ui.habits])]
    /\ UNCHANGED remote

\* toggleHabit up to `await fetch(.../toggle, {method: 'PATCH'})`; the list
\* is rendered once loading is false
ToggleHabit(c, id) ==
    /\ CallFree(c)
    /\ ~ui.loading
    /\ id \in IdsOf(ui.habits)
    /\ env.calls > 0
    /\ env' = [env EXCEPT !.calls = @ - 1]
    /\ ui' = [ui EXCEPT !.habits = Optimistic(ui.habits, id),
                        !.calls = Started(c, [IdleCall EXCEPT !.fn = "toggle", !.id = id,
                                                              !.habits = ui.habits]),
                        !.last = [what |-> "optimistic", id |-> id, status |-> 0,
                                  alone |-> Alone(c)]]
    /\ UNCHANGED remote

\* deleteHabit (confirmed) up to `await fetch(.../id, {method: 'DELETE'})`
DeleteHabit(c, id) ==
    /\ CallFree(c)
    /\ ~ui.loading
    /\ id \in IdsOf(ui.habits)
    /\ env.calls > 0
    /\ env' = [env EXCEPT !.calls = @ - 1]
    /\ ui' = [ui EXCEPT !.habits = FilterOut(ui.habits, id),
                        !.calls = Started(c, [IdleCall EXCEPT !.fn = "delete", !.id = id]),
                        !.last = [what |-> "removed", id |-> id, status |-> 0,
                                  alone |-> Alone(c)]]
    /\ UNCHANGED remote

\* the request of call c is on its way to the server
OnWire(c, fn) == ui.calls[c].fn = fn /\ ui.calls[c].stage = "sent"

\* `await fetch(...)` resolves with the response, and the handler runs to
\* its end
Resolve(c) ==
    LET call == ui.calls[c]
    IN  /\ call.stage = "answered"
        /\ ui' = [ui EXCEPT !.habits = Settled(call, @),
                            !.loading = IF call.fn = "fetch" THEN FALSE ELSE @,
                            !.calls[c] = IdleCall,
                            !.last = LastSettled(call)]
        /\ UNCHANGED <<env, remote>>

\* `await fetch(...)` rejects (the request or its response is lost), and the
\* catch block runs: deleteHabit calls fetchHabits(), on this connection
\* unless the server is still serving the lost request on it
NetworkError(c) ==
    LET call == ui.calls[c]
    IN  /\ call.stage = "sent"
        /\ env.faults > 0
        /\ env' = [env EXCEPT !.faults = @ - 1]
        /\ IF call.fn = "delete"
           THEN \E c2 \in Slots :
                    /\ IF reqs[c].op = "idle" THEN c2 = c ELSE CallFree(c2)
                    /\ ui' = [ui EXCEPT
                                !.calls = [u \in Slots |->
                                    IF u = c2 THEN FetchCall("delete", call.alone /\ c2 = c)
                                    ELSE IF u = c THEN IdleCall
                                    ELSE [@[u] EXCEPT !.alone = FALSE]],
                                !.last = [what |-> "refetching", id |-> call.id, status |-> 0,
                                          alone |-> call.alone]]
           ELSE ui' = [ui EXCEPT
                        !.habits = IF call.fn = "toggle" THEN RollBack(call, @) ELSE @,
                        !.loading = IF call.fn = "fetch" THEN FALSE ELSE @,
                        !.calls[c] = IdleCall,
                        !.last = [what |-> CASE call.fn = "toggle" -> "rolledback"
                                             [] call.fn = "add" -> "unadded"
                                             [] call.fn = "fetch" -> "unfetched",
                                  id |-> call.id, status |-> 0, alone |-> call.alone]]
        /\ UNCHANGED remote

\* an awaited fs or sqlite call of a handler rejects (StorageError): the
\* handler's catch block answers 500
Fault(s) ==
    /\ reqs[s].pc \in {"mkfile", "write", "update", "select"}
    /\ env.faults > 0
    /\ env' = [env EXCEPT !.faults = @ - 1]
    /\ reqs' = [reqs EXCEPT ![s].pc = "respond", ![s].status = 500, ![s].body = <<>>]
    /\ UNCHANGED <<ui, now, file, db, seq, trail, issued, deleted, expect, clash>>

\* the browser and the server it talks to: every request is one of App's
NextClient ==
    \/ \E c \in Slots, name \in env.names : AddHabit(c, name)
    \/ \E c \in Slots, id \in IdsOf(ui.habits) : ToggleHabit(c, id)
    \/ \E c \in Slots, id \in IdsOf(ui.habits) : DeleteHabit(c, id)
    \/ \E c \in Slots : OnWire(c, "fetch") /\ JsonList(c)
    \/ \E c \in Slots : OnWire(c, "add") /\ JsonCreate(c, ui.calls[c].name)
    \/ \E c \in Slots : OnWire(c, "toggle") /\ JsonToggle(c, ui.calls[c].id)
    \/ \E c \in Slots : OnWire(c, "delete") /\ JsonDelete(c, ui.calls[c].id)
    \/ \E s \in Slots : JsonReadDataCreate(s)
    \/ \E s \in Slots : JsonWriteData(s)
    \/ \E c \in Slots : OnWire(c, "fetch") /\ SqlList(c)
    \/ \E c \in Slots : OnWire(c, "add") /\ SqlCreate(c, ui.calls[c].name)
    \/ \E c \in Slots : OnWire(c, "toggle") /\ SqlToggle(c, ui.calls[c].id)
    \/ \E c \in Slots : OnWire(c, "delete") /\ SqlDelete(c, ui.calls[c].id)
    \/ \E s \in Slots : SqlUpdate(s)
    \/ \E s \in Slots : SqlSelect(s)
    \/ \E s \in Slots : Fault(s)
    \/ \E s \in Slots : Respond(s)
    \/ \E c \in Slots : Resolve(c)
    \/ \E c \in Slots : NetworkError(c)
    \/ Tick

\* App has just mounted in a browser, against a server that has just started;
\* env.calls is the number of calls the user still makes, env.faults the
\* number of failures (lost fetches, storage errors) still to come
Attached(conns, calls, faults) ==
    \E b \in Backends :
        InitWith([backend |-> b, conns |-> conns, horizon |-> HorizonConc,
                  cap |-> MaxHabits, names |-> PlainNames, record |-> {},
                  browser |-> TRUE, calls |-> calls, faults |-> faults])

\* the user waits for each call to resolve before starting the next
InitClient == Attached(1, MaxCalls, MaxFaults)

SpecClient == InitClient /\ [][NextClient]_vars

\* the user's calls overlap
InitClientOverlapping == Attached(MaxInFlight, MaxCallsOverlapping, MaxFaultsOverlapping)

SpecClientOverlapping == InitClientOverlapping /\ [][NextClient]_vars

----------------------------------------------------------------------------
(* What the claims are stated with *)

\* a stored record with completed_today as a boolean
Norm(h) ==
    [streak |-> h.streak, completed |-> Truthy(h.completed_today),
     last |-> h.last_completed_date]

\* transition(habit, today) of the specification's Streak Engine, with
\* yesterday(today) the day before today
Transition(h, today) ==
    LET yesterday == <<today[1] - 1>>
    IN  IF ~h.completed
        THEN [streak |-> IF h.last = today THEN h.streak
                         ELSE IF h.last = yesterday THEN h.streak + 1
                         ELSE 1,
              completed |-> TRUE,
              last |-> today]
        ELSE IF h.last = today
             THEN [streak |-> IF h.streak - 1 > 0 THEN h.streak - 1 ELSE 0,
                   completed |-> FALSE,
                   last |-> Null]
             ELSE [h EXCEPT !.completed = FALSE]

\* the toggles that have persisted their record and are about to answer 200
Toggled == {s \in Slots : reqs[s].op = "toggle" /\ reqs[s].pc = "respond" /\ reqs[s].status = 200}

\* the latest entries of a habit's trail, oldest first
Recent(id, n) == LastN(trail[id], n)
Tracked(n) == {id \in DOMAIN trail : Len(trail[id]) >= n}

----------------------------------------------------------------------------
\* C1: for every stored habit and every day, the record a server toggle
\* persists and returns is transition(habit, today) of the specification:
\* same id and name, completed_today flipped, streak and last_completed_date
\* as the Streak Engine gives them.
C1_ToggleIsTransition ==
    \A s \in Toggled :
        LET r == reqs[s]
            stored == SqlGetRow(Store, r.id)
        IN  /\ Len(r.body) = 1
            /\ stored = r.body
            /\ r.body[1].id = r.pre[1].id
            /\ r.body[1].name = r.pre[1].name
            /\ Norm(r.body[1]) = Transition(Norm(r.pre[1]), Today(r.t))

\* a toggle has continued a run: the habit was last completed yesterday
C1_Witness ==
    \E s \in Toggled :
        /\ env.backend = "sql"
        /\ reqs[s].pre[1].completed_today = 0
        /\ reqs[s].pre[1].streak = MaxSeedStreak
        /\ reqs[s].pre[1].last_completed_date = YesterdayStr(reqs[s].t)
        /\ reqs[s].body[1].streak = MaxSeedStreak + 1

----------------------------------------------------------------------------
\* the last two toggles of habit id marked it done and then, on the same
\* day, undone; q is its trail's latest three entries
DoneThenUndone(q) ==
    /\ ~q[1].completed
    /\ q[2].completed
    /\ ~q[3].completed
    /\ q[2].day = q[3].day

\* C2 (as claimed): toggling a habit done and then immediately undone on the
\* same day leaves it with the streak and last_completed_date it had before
\* the first toggle.
C2_UndoRestores ==
    \A id \in Tracked(3) :
        LET q == Recent(id, 3)
        IN  DoneThenUndone(q) => q[3].streak = q[1].streak /\ q[3].last = q[1].last

\* C2 (amended): toggling a habit done and then immediately undone on the
\* same day leaves last_completed_date null, and leaves the streak at its
\* value before the first toggle if the habit was last completed the day
\* before, and at 0 otherwise.
C2_UndoNullsDate ==
    \A id \in Tracked(3) :
        LET q == Recent(id, 3)
        IN  DoneThenUndone(q) =>
                /\ q[3].last = Null
                /\ q[3].streak = IF q[1].last = <<q[2].day[1] - 1>> THEN q[1].streak ELSE 0

\* a run of two days was continued and the completion undone on the same day
C2_Witness ==
    \E id \in Tracked(3) :
        LET q == Recent(id, 3)
        IN  /\ DoneThenUndone(q)
            /\ q[1].streak = 1
            /\ q[1].last = <<q[2].day[1] - 1>>
            /\ q[2].streak = 2
            /\ q[3].streak = 1
            /\ q[3].last = Null

----------------------------------------------------------------------------
\* the last three toggles of a habit marked it done, unmarked it on a later
\* day (no undo of that completion) and marked it done again; q is its
\* trail's latest three entries
DoneAndDoneAgain(q) ==
    /\ q[1].completed
    /\ q[1].last = q[1].day
    /\ ~q[2].completed
    /\ q[2].day # q[1].day
    /\ q[3].completed

\* C3: a habit marked done on day D and next marked done on day D+1, with no
\* undo in between, has a streak one above the streak after the first
\* marking; next marked done on day D+2 or later, it has streak 1.
C3_ConsecutiveDays ==
    \A id \in Tracked(3) :
        LET q == Recent(id, 3)
        IN  DoneAndDoneAgain(q) =>
                /\ q[3].day[1] = q[1].day[1] + 1 => q[3].streak = q[1].streak + 1
                /\ q[3].day[1] >= q[1].day[1] + 2 => q[3].streak = 1

\* a habit was marked done on three days in a row
C3_Witness ==
    \E id \in Tracked(3) :
        LET q == Recent(id, 3)
        IN  /\ DoneAndDoneAgain(q)
            /\ q[3].day[1] = q[1].day[1] + 1
            /\ q[1].streak = 2
            /\ q[3].streak = 3

----------------------------------------------------------------------------
\* C4 (as claimed): every stored habit whose last_completed_date is null has
\* streak 0.
C4_NullDateZeroStreak ==
    \A i \in 1..Len(Store) :
        Store[i].last_completed_date = Null => Store[i].streak = 0

\* C4 (amended): a stored habit whose last_completed_date is null either has
\* never been toggled and has streak 0, or was last toggled by the undo of a
\* same-day completion and has the streak of that completion less one (not
\* below 0).  (Stated of the habits a request can address: the first habit
\* of each id.)
C4_NullDateAfterUndo ==
    \A i \in 1..Len(Store) :
        LET h == Store[i]
            q == trail[h.id]
            n == Len(q)
        IN  h.last_completed_date = Null /\ FindIndex(Store, h.id) = i =>
                /\ h.id \in DOMAIN trail
                /\ Norm(h) = [streak |-> q[n].streak, completed |-> q[n].completed,
                              last |-> q[n].last]
                /\ \/ n = 1 /\ h.streak = 0
                   \/ /\ n > 1
                      /\ q[n - 1].completed
                      /\ q[n - 1].last = q[n].day
                      /\ h.streak = IF q[n - 1].streak > 1 THEN q[n - 1].streak - 1 ELSE 0

\* a completion with streak 2 was undone: null date, streak 1
C4_Witness ==
    \E i \in 1..Len(Store) :
        /\ Store[i].last_completed_date = Null
        /\ Store[i].streak = 1
        /\ Store[i].id \in DOMAIN trail
        /\ Len(trail[Store[i].id]) > 1

----------------------------------------------------------------------------
\* C5: every stored habit with completed_today true has last_completed_date
\* equal to the current day, also after the day has advanced.
C5_CompletedMeansToday ==
    \A i \in 1..Len(Store) :
        Truthy(Store[i].completed_today) => Store[i].last_completed_date = Today(now)

----------------------------------------------------------------------------
\* the creates that have been validated
Validated == {s \in Slots : reqs[s].op = "create" /\ reqs[s].status # 0}

\* C6: create answers 400, and persists nothing, for every name that is
\* empty or all whitespace or longer than 50 characters, the lengths being
\* those of the trimmed name, and accepts every other name; so every
\* persisted name is non-empty and at most 50 characters after trimming.
C6_NamesValidated ==
    /\ \A s \in Validated :
            LET n == Len(Trim(reqs[s].sent))
            IN  reqs[s].status = 400 <=> (n < NameMin \/ n > NameMax)
    /\ \A i \in 1..Len(Store) :
            LET n == Len(Trim(Store[i].name))
            IN  n >= NameMin /\ n <= NameMax

----------------------------------------------------------------------------
\* C7: once a DELETE for id X has been answered 204, a list request that
\* starts afterwards returns no habit with id X, whatever other requests
\* were in flight while the delete ran.
C7_DeletedStaysDeleted ==
    \A s \in Slots :
        reqs[s].op = "list" /\ reqs[s].pc = "respond" =>
            \A i \in 1..Len(reqs[s].body) : reqs[s].body[i].id \notin reqs[s].after

----------------------------------------------------------------------------
\* the first stored habit with this id, as a sequence of at most one record
Stored(id) == SqlGetRow(Store, id)

\* the same, after the step
StoredNext(id) == SqlGetRow(Store', id)

\* C8: requests for different ids are independent: when no two requests for
\* the same id have overlapped and every request has been answered, the
\* store holds, for each id, what the last answered create, toggle or delete
\* of that id left.
C8_DifferentIdsIndependent ==
    Quiescent /\ ~clash => \A id \in DOMAIN expect : Stored(id) = expect[id]

----------------------------------------------------------------------------
\* C9: no two stored habits share an id, and no create assigns an id that an
\* earlier create assigned.
C9_IdsUniqueNeverReused ==
    /\ \A i, j \in 1..Len(Store) : i # j => Store[i].id # Store[j].id
    /\ \A id \in DOMAIN issued : issued[id] = 1

----------------------------------------------------------------------------
\* a step of the handler of a toggle that is answered 404
StepOfToggle404(s) ==
    /\ reqs'[s] # reqs[s]
    /\ \/ reqs[s].op = "toggle" /\ (reqs[s].pc = "mkfile" \/ reqs[s].status = 404)
       \/ reqs'[s].op = "toggle" /\ reqs'[s].status = 404

\* C10: a toggle for an id that is not in the store is answered 404 and no
\* step of its handler changes the stored habits.
C10_Toggle404WritesNothing ==
    [][\A s \in Slots : StepOfToggle404(s) => Store' = Store]_vars

----------------------------------------------------------------------------
\* a step of the handler of a DELETE, and the id it names
StepOfDelete(s) == reqs'[s] # reqs[s] /\ (reqs[s].op = "delete" \/ reqs'[s].op = "delete")
IdOfDelete(s) == IF reqs[s].op = "delete" THEN reqs[s].id ELSE reqs'[s].id

\* the habits of a list other than those with this id
Without(habits, id) == SelectSeq(habits, LAMBDA h : h.id # id)

\* C11: a DELETE is answered 204 and leaves the store without its id and
\* otherwise as it was; for an id that is not in the store (never stored, or
\* deleted before: the second of two deletes) every stored habit is left
\* unchanged.
C11_DeleteAbsentIdempotent ==
    [][\A s \in Slots :
        StepOfDelete(s) =>
            /\ Store' = Store \/ Store' = Without(Store, IdOfDelete(s))
            /\ IdOfDelete(s) \notin IdsOf(Store) => Store' = Store
            /\ reqs'[s].pc = "respond" =>
                    /\ reqs'[s].status = 204
                    /\ IdOfDelete(s) \notin IdsOf(Store')]_vars

\* an id is deleted a second time, while another habit is stored
C11_Witness ==
    \E s \in Slots :
        /\ reqs[s].op = "delete"
        /\ reqs[s].pc = "respond"
        /\ reqs[s].status = 204
        /\ reqs[s].id # NoSuchId
        /\ reqs[s].id \in deleted
        /\ Store # <<>>

----------------------------------------------------------------------------
\* toggleHabit of call c runs up to its fetch
StartOfToggle(c) == ui.calls[c].fn = "idle" /\ ui'.calls[c].fn = "toggle"

\* the record the server of the deployment computes for a habit at time t
ServerToggle(h, t) == IF env.backend = "json" THEN ToggleJson(h, t) ELSE ToggleSql(h, t)

\* C12: the row the client shows as soon as the user toggles has the
\* completed_today, streak and last_completed_date that the server computes
\* for the same habit on the same day.
C12_OptimisticIsTransition ==
    [][\A c \in Slots :
        StartOfToggle(c) =>
            \A i \in 1..Len(ui.habits) :
                ui.habits[i].id = ui'.calls[c].id =>
                    Norm(ui'.habits[i]) = Norm(ServerToggle(ui.habits[i], now))]_vars

----------------------------------------------------------------------------
\* the fetch of toggleHabit call c resolves with the toggled record
ReconcileStep(c) ==
    /\ ui.calls[c].fn = "toggle"
    /\ ui.calls[c].stage = "answered"
    /\ Parsed(ui.calls[c])
    /\ ui'.calls[c].fn = "idle"

\* C13: when the fetch of a toggle succeeds, every local row with its id
\* becomes the record of the response, whatever the row showed; and if
\* nothing else was in flight while the toggle was, the row is then the
\* record the server has persisted.
C13_ReconciledToServerRecord ==
    [][\A c \in Slots :
        ReconcileStep(c) =>
            LET call == ui.calls[c]
            IN  /\ Len(ui'.habits) = Len(ui.habits)
                /\ \A i \in 1..Len(ui.habits) :
                        ui.habits[i].id = call.id =>
                            /\ ui'.habits[i] = call.body[1]
                            /\ call.alone => <<ui'.habits[i]>> = StoredNext(call.id)]_vars

\* a toggle that was alone in flight has been reconciled: the row shows the
\* server's date, which the optimistic row did not have
C13_Witness ==
    /\ ui.last.what = "reconciled"
    /\ ui.last.alone
    /\ \E i \in 1..Len(ui.habits) :
            /\ ui.habits[i].id = ui.last.id
            /\ <<ui.habits[i]>> = Stored(ui.last.id)
            /\ ui.habits[i].last_completed_date = Today(now)

----------------------------------------------------------------------------
\* the fetch of toggleHabit call c fails: it rejects, or resolves with a
\* response that is not ok (or has no record)
RollBackStep(c) ==
    /\ ui.calls[c].fn = "toggle"
    /\ ui'.calls[c].fn = "idle"
    /\ ~(ui.calls[c].stage = "answered" /\ Parsed(ui.calls[c]))

\* the rows of a list with this id
RowsOf(habits, id) == SelectSeq(habits, LAMBDA h : h.id = id)

\* C14: when the fetch of a toggle fails, the toggled row is again exactly
\* the row of the snapshot taken before the optimistic update.
C14_RolledBackToSnapshot ==
    [][\A c \in Slots :
        RollBackStep(c) =>
            /\ RowsOf(ui.calls[c].habits, ui.calls[c].id) # <<>>
            /\ RowsOf(ui'.habits, ui.calls[c].id)
                    = RowsOf(ui.calls[c].habits, ui.calls[c].id)]_vars

\* a toggle was answered 404 and rolled back: the row is shown, not completed
C14_Witness ==
    /\ ui.last.what = "rolledback"
    /\ ui.last.status = 404
    /\ \E i \in 1..Len(ui.habits) :
            /\ ui.habits[i].id = ui.last.id
            /\ ~Truthy(ui.habits[i].completed_today)
            /\ ui.habits[i].streak = 0

----------------------------------------------------------------------------
\* the client has finished handling a failed delete, which was alone in
\* flight: the DELETE was answered with a status that is not ok, or its
\* fetch was rejected and the list has been fetched again
DeleteFailureHandled ==
    /\ ui.last.alone
    /\ \/ ui.last.what = "refetched"
       \/ ui.last.what = "deleted" /\ ui.last.status \notin 200..299

\* C15: once a failed delete (fetch rejected, or response not ok) has been
\* handled and nothing is in flight, the local list is the server's list.
C15_FailedDeleteRefetches ==
    /\ DeleteFailureHandled
    /\ Quiescent
    /\ \A c \in Slots : ui.calls[c].fn = "idle"
    => ui.habits = Store

----------------------------------------------------------------------------
\* C16: in every store state reached by creates, toggles and day advances, a
\* habit with streak 0 has a null last_completed_date.
C16_ZeroStreakNullDate ==
    \A i \in 1..Len(Store) :
        Store[i].streak = 0 => Store[i].last_completed_date = Null

\* a habit is back at streak 0 after a completion and its undo
C16_Witness ==
    \E i \in 1..Len(Store) :
        /\ Store[i].streak = 0
        /\ Store[i].id \in Tracked(3)
        /\ Recent(Store[i].id, 2)[1].streak = 1

----------------------------------------------------------------------------
\* toggle u has read the record toggle s read, and has persisted its result
WroteFromSameRead(s, u) ==
    /\ u # s
    /\ reqs[u].op = "toggle"
    /\ reqs[u].id = reqs[s].id
    /\ reqs[u].status = 200
    /\ reqs[u].pc \in {"select", "respond"}
    /\ reqs[u].pre = reqs[s].pre

\* the write of toggle s lands
WriteOfToggle(s) ==
    /\ reqs[s].op = "toggle"
    /\ reqs[s].pc \in {"write", "update"}
    /\ reqs'[s].pc # reqs[s].pc

\* C17: when two toggles of one id have both read the record before either
\* wrote, the later write wins: the record then persisted is one application
\* of the transition to the record both read, not two.
C17_LaterWriteWins ==
    [][\A s, u \in Slots :
        WriteOfToggle(s) /\ WroteFromSameRead(s, u) =>
            \A i \in 1..Len(StoredNext(reqs[s].id)) :
                LET once == Transition(Norm(reqs[s].pre[1]), Today(reqs[s].t))
                IN  /\ Norm(StoredNext(reqs[s].id)[i]) = once
                    /\ Norm(StoredNext(reqs[s].id)[i])
                            # Transition(once, Today(reqs[s].t))]_vars

\* on the SQLite server both UPDATEs have landed, and the row is the prior
\* record toggled once
C17_Witness ==
    \E s, u \in Slots :
        /\ env.backend = "sql"
        /\ reqs[s].op = "toggle"
        /\ reqs[s].pc \in {"select", "respond"}
        /\ reqs[s].status = 200
        /\ WroteFromSameRead(s, u)
        /\ Stored(reqs[s].id) # <<>>
        /\ Norm(Stored(reqs[s].id)[1]) = Transition(Norm(reqs[s].pre[1]), Today(reqs[s].t))

----------------------------------------------------------------------------
\* C18: the rollback of a failed toggle changes only the toggled row: the
\* local list without that row is the same after the rollback as before it,
\* whatever other calls resolved while the toggle was in flight.
C18_RollBackTouchesOneRow ==
    [][\A c \in Slots :
        RollBackStep(c) =>
            Without(ui'.habits, ui.calls[c].id) = Without(ui.habits, ui.calls[c].id)]_vars

----------------------------------------------------------------------------
\* the last three toggles of a habit, all on one day, marked it done, undid
\* that and marked it done again; q is its trail's latest four entries
DoneUndoneDone(q) ==
    /\ ~q[1].completed
    /\ q[2].completed
    /\ ~q[3].completed
    /\ q[4].completed
    /\ q[2].day = q[3].day
    /\ q[3].day = q[4].day

\* C19 (as claimed): on one day, marking a not-completed habit done, undoing
\* it and marking it done again leaves the streak and last_completed_date
\* that the first marking alone left.
C19_ThreeTogglesAsOne ==
    \A id \in Tracked(4) :
        LET q == Recent(id, 4)
        IN  DoneUndoneDone(q) => q[4].streak = q[2].streak /\ q[4].last = q[2].last

\* C19 (amended): it leaves the last_completed_date that the first marking
\* left (the day), and streak 1; the first marking left streak 1 too, unless
\* the habit was last completed the day before, when it left the streak it
\* found plus one.
C19_RedoneStartsAtOne ==
    \A id \in Tracked(4) :
        LET q == Recent(id, 4)
        IN  DoneUndoneDone(q) =>
                /\ q[4].last = q[2].last
                /\ q[4].last = q[4].day
                /\ q[4].streak = 1
                /\ q[2].streak = IF q[1].last = <<q[2].day[1] - 1>> THEN q[1].streak + 1 ELSE 1

\* a run of two days, continued, undone and marked again: streak 1, not 3
C19_Witness ==
    \E id \in Tracked(4) :
        LET q == Recent(id, 4)
        IN  /\ DoneUndoneDone(q)
            /\ q[1].streak = 2
            /\ q[2].streak = 3
            /\ q[4].streak = 1

----------------------------------------------------------------------------
\* a step of the handler of a list request
StepOfList(s) == reqs'[s] # reqs[s] /\ (reqs[s].op = "list" \/ reqs'[s].op = "list")

\* C20: on the JSON-file server no step of a list request changes the
\* persisted habits, whatever other requests are in flight, also when
\* habits.json does not exist and readData creates it.
C20_ListWritesNothing ==
    [][\A s \in Slots :
        env.backend = "json" /\ StepOfList(s) => file'.habits = file.habits]_vars

====
